---- MODULE Spec2Model ----
(***************************************************************************)
(* Model of the influencer dashboard (minootsk/New_app): the List page     *)
(* (src/pages.List.py) reconciles an uploaded candidate file against the   *)
(* remote roster sheet, the Credibility page (src/pages/Credibility.py)    *)
(* edits a working copy of the roster and pushes it back.                  *)
(*                                                                         *)
(* A Python string is a sequence of one-character strings, so that         *)
(* lstrip/strip/lower are computed character by character.                 *)
(***************************************************************************)
EXTENDS Naturals, Sequences, FiniteSets, TLC

(* ------------------------------ bounds -------------------------------- *)
\* longest raw identity string drawn for the normalizer
MaxLen == 3
\* most data rows of the roster sheet and of the working copy
MaxRows == 2
\* cap of the editor version counter
MaxVersion == 2
\* writes to the sheet by other sessions
MaxExternal == 1
\* most data rows of the roster the two-page session starts from
SessionRows == 1
\* most rows of an uploaded file drawn for the reconciliation
MaxCands == 3
\* most rows of the roster sheet, header included, after an append
MaxSheetLen == 4

(* ------------------------------ strings ------------------------------- *)
\* the characters raw identity strings are drawn from
IdChars == {"@", " ", "a", "b"}

\* str.isspace for the characters of the model
IsSpace(c) == c = " "

\* s without its first k characters
DropFirst(s, k) == SubSeq(s, k + 1, Len(s))

\* number of leading characters of s that satisfy "is in the set cs"
RECURSIVE LeadRun(_, _)
LeadRun(s, cs) ==
    IF s = <<>> \/ Head(s) \notin cs THEN 0 ELSE 1 + LeadRun(Tail(s), cs)

\* number of trailing characters of s that are in cs
RECURSIVE TrailRun(_, _)
TrailRun(s, cs) ==
    IF s = <<>> \/ s[Len(s)] \notin cs THEN 0
    ELSE 1 + TrailRun(SubSeq(s, 1, Len(s) - 1), cs)

\* str.lstrip(chars): every leading character that is in chars is removed
LStrip(s, cs) == DropFirst(s, LeadRun(s, cs))

\* str.rstrip(chars)
RStrip(s, cs) == SubSeq(s, 1, Len(s) - TrailRun(s, cs))

\* str.strip(): leading and trailing whitespace removed
Whitespace == {" "}
Strip(s) == RStrip(LStrip(s, Whitespace), Whitespace)

\* str.lower() on one character
LowerChar(c) ==
    CASE c = "A" -> "a" [] c = "E" -> "e" [] c = "F" -> "f" [] c = "L" -> "l"
      [] c = "R" -> "r" [] c = "S" -> "s" [] c = "T" -> "t" [] c = "U" -> "u"
      [] OTHER -> c

\* str.lower()
Lower(s) == [i \in DOMAIN s |-> LowerChar(s[i])]

\* the identity cleaning of both pages: raw.lstrip("@").strip()
Normalize(raw) == Strip(LStrip(raw, {"@"}))

\* all strings over cs of length at most n
RECURSIVE StrUpTo(_, _)
StrUpTo(cs, n) ==
    IF n = 0 THEN {<<>>}
    ELSE LET shorter == StrUpTo(cs, n - 1)
         IN  shorter \cup {Append(s, c) : s \in shorter, c \in cs}

(* --------------------------- python values ---------------------------- *)
\* None, and a value that is not None (st.session_state entries, cache entries)
None == [some |-> FALSE, v |-> <<>>]
Some(x) == [some |-> TRUE, v |-> x]

\* a cell of the Credibility column in a DataFrame: a Python bool or a str
PyBool(b) == [isBool |-> TRUE, b |-> b, s |-> <<>>]
PyStr(s) == [isBool |-> FALSE, b |-> FALSE, s |-> s]

\* the string literals of the code
sTRUE == <<"T", "R", "U", "E">>
sTrue == <<"T", "r", "u", "e">>
strue == <<"t", "r", "u", "e">>
sFALSE == <<"F", "A", "L", "S", "E">>
sFalse == <<"F", "a", "l", "s", "e">>
sfalse == <<"f", "a", "l", "s", "e">>
snan == <<"n", "a", "n">>

(* --------------------------- the remote sheet ------------------------- *)
\* The "Influencers List" worksheet is what get_all_values() returns: a
\* sequence of rows of string cells, the header row first.  The columns are
\* ID, Comment, Credibility, the order both writers use.
HeaderRow ==
    << <<"I", "D">>, <<"C", "o", "m", "m", "e", "n", "t">>,
       <<"C", "r", "e", "d", "i", "b", "i", "l", "i", "t", "y">> >>

SheetRow(id, comment, cred) == <<id, comment, cred>>

\* rows 2.. of the sheet
DataRows(values) == IF values = <<>> THEN <<>> ELSE Tail(values)

(* ---------------------- List page: roster load ------------------------ *)
\* pd.to_numeric(errors="ignore") followed by astype(str) on one column: a
\* column whose cells are all empty parses as NaN and prints as "nan"; a
\* column with any other cell of the model's alphabet is left as it is.
NumericThenStr(cells) ==
    IF cells # <<>> /\ \A i \in DOMAIN cells : cells[i] = <<>>
    THEN [i \in DOMAIN cells |-> snan]
    ELSE cells

\* the float NaN of a column pd.to_numeric has converted (not a string)
NaN == <<"NaN">>

\* a column that is not cast back to text: the Comment column keeps the NaN
\* cells optimize_dataframe has put in an all-empty column
NumericCol(cells) ==
    IF cells # <<>> /\ \A i \in DOMAIN cells : cells[i] = <<>>
    THEN [i \in DOMAIN cells |-> NaN]
    ELSE cells

\* load_worksheet_df returns an empty frame for a sheet of at most one row,
\* and then inf_df.columns[0] raises; a first row that is not the header has
\* no "ID" column and .astype raises: load_all_data reports and stops.
ListLoadOk(values) == Len(values) > 1 /\ values[1] = HeaderRow

\* a variant of the load that keeps the letter case of the Credibility cells
InfDfKeepCase(values) ==
    LET rows == DataRows(values)
        ids == NumericThenStr([i \in DOMAIN rows |-> rows[i][1]])
        creds == NumericThenStr([i \in DOMAIN rows |-> rows[i][3]])
        comments == NumericCol([i \in DOMAIN rows |-> rows[i][2]])
    IN  [i \in DOMAIN rows |->
            [ID |-> Strip(ids[i]),
             Comment |-> comments[i],
             Credibility |-> Strip(creds[i])]]

\* inf_df as load_all_data returns it: ID stripped of whitespace only,
\* Credibility stripped and lower-cased
InfDf(values) ==
    LET rows == DataRows(values)
        ids == NumericThenStr([i \in DOMAIN rows |-> rows[i][1]])
        creds == NumericThenStr([i \in DOMAIN rows |-> rows[i][3]])
        comments == NumericCol([i \in DOMAIN rows |-> rows[i][2]])
    IN  [i \in DOMAIN rows |->
            [ID |-> Strip(ids[i]),
             Comment |-> comments[i],
             Credibility |-> Lower(Strip(creds[i]))]]

(* ---------------------- List page: upload ----------------------------- *)
\* An uploaded file: the raw cells of its ID column and whether pandas can
\* parse it.  Its metric columns take no part in the partitioning.  The md5
\* of the bytes is modelled by the file itself (no collisions).
File(ids, ok) == [ids |-> ids, ok |-> ok]
FileHash(f) == f

\* process_uploaded_file: new_df["ID"] = ID.astype(str).str.lstrip("@").str.strip()
ProcessUploadedFile(f) == [i \in DOMAIN f.ids |-> Normalize(f.ids[i])]

(* ---------------------- List page: reconciliation --------------------- *)
\* the rows of the left merge for one candidate: one per roster row of the
\* same ID, or one with a null Credibility when there is none
MergeRows(id, inf) ==
    LET m == SelectSeq(inf, LAMBDA r : r.ID = id)
    IN  IF m = <<>>
        THEN << [ID |-> id, isna |-> TRUE, Credibility |-> <<>>, Comment |-> <<>>] >>
        ELSE [i \in DOMAIN m |->
                [ID |-> id, isna |-> FALSE, Credibility |-> m[i].Credibility,
                 Comment |-> m[i].Comment]]

\* new_df.merge(inf_df, on="ID", how="left")
RECURSIVE Merge(_, _)
Merge(new, inf) ==
    IF new = <<>> THEN <<>> ELSE MergeRows(Head(new), inf) \o Merge(Tail(new), inf)

\* a variant that takes every merged row whose credibility is not "true"
RejectedNotTrue(merged) ==
    SelectSeq(merged, LAMBDA r : r.isna \/ r.Credibility # strue)

\* merged_df[merged_df["Credibility"].isin(["false", "False"])]
RejectedDf(merged) ==
    SelectSeq(merged, LAMBDA r : ~r.isna /\ r.Credibility \in {sfalse, sFalse})

\* a variant that also takes the merged rows of a blank roster credibility
UnknownOrBlank(merged) ==
    SelectSeq(merged, LAMBDA r : r.isna \/ r.Credibility \in {<<>>, snan})

\* merged_df[merged_df["Credibility"].isna()]
UnknownDf(merged) == SelectSeq(merged, LAMBDA r : r.isna)

\* the set of the ID column of a frame
IdSet(df) == {df[i].ID : i \in DOMAIN df}

\* pending_ids = set(new_df.ID) - set(rejected_df.ID) - set(unknown_df.ID);
\* pending_df = new_df[new_df.ID.isin(pending_ids)]
PendingDf(new, rej, unk) ==
    LET all == {new[i] : i \in DOMAIN new}
        pending_ids == (all \ IdSet(rej)) \ IdSet(unk)
    IN  SelectSeq(new, LAMBDA id : id \in pending_ids)

(* ---------------------- Credibility page: load ------------------------ *)
\* "".join(row)
JoinCells(row) == row[1] \o row[2] \o row[3]

\* a variant of the fingerprint that digests every row
GetSheetVersionAllRows(values) == <<Len(values), values>>

\* get_sheet_version: md5 of "<len(all_values)>-<last row joined>".  The
\* digest is modelled by the pair it is computed from (no collisions).
GetSheetVersion(values) ==
    <<Len(values), IF values = <<>> THEN <<>> ELSE JoinCells(values[Len(values)])>>

\* load_data raises on an empty sheet (data[0]) and on a first row without
\* the ID / Credibility / Comment headers (next() on an empty generator)
LoadDataOk(values) == values # <<>> /\ values[1] = HeaderRow

\* df[cred_col].replace({"TRUE": True, ..., "false": False}): exactly these
\* six spellings become booleans, any other cell stays the string it is
ReplaceCred(cell) ==
    IF cell \in {sTRUE, sTrue, strue} THEN PyBool(TRUE)
    ELSE IF cell \in {sFALSE, sFalse, sfalse} THEN PyBool(FALSE)
    ELSE PyStr(cell)

\* influencers_df[[id_col, comment_col, cred_col]] of load_data's frame
LoadData(values) ==
    LET rows == DataRows(values)
    IN  [i \in DOMAIN rows |->
            [ID |-> rows[i][1], Comment |-> rows[i][2],
             Credibility |-> ReplaceCred(rows[i][3])]]

(* ---------------------- Credibility page: session --------------------- *)
\* a variant of the session check that keeps the working copy on a change
SessionSyncKeep(ft, sv, ev, ver, data) ==
    LET ft1 == IF ft.some THEN ft ELSE Some(data)
    IN  IF ~sv.some
        THEN [full_table |-> ft1, sheet_version |-> Some(ver),
              editor_version |-> ev, rerun |-> FALSE]
        ELSE IF sv.v # ver
        THEN [full_table |-> ft1, sheet_version |-> Some(ver),
              editor_version |-> ev + 1, rerun |-> TRUE]
        ELSE [full_table |-> ft1, sheet_version |-> sv,
              editor_version |-> ev, rerun |-> FALSE]

\* SESSION STATE MANAGEMENT: fill an absent working copy; on a fingerprint
\* other than the stored one replace the working copy by the loaded frame,
\* store the fingerprint, bump the editor version and rerun
SessionSync(ft, sv, ev, ver, data) ==
    LET ft1 == IF ft.some THEN ft ELSE Some(data)
    IN  IF ~sv.some
        THEN [full_table |-> ft1, sheet_version |-> Some(ver),
              editor_version |-> ev, rerun |-> FALSE]
        ELSE IF sv.v # ver
        THEN [full_table |-> Some(data), sheet_version |-> Some(ver),
              editor_version |-> ev + 1, rerun |-> TRUE]
        ELSE [full_table |-> ft1, sheet_version |-> sv,
              editor_version |-> ev, rerun |-> FALSE]

(* ---------------------- Credibility page: edits ----------------------- *)
\* Python != on two Credibility cells (a bool never equals a str here)
CellNe(a, b) == a # b

\* a variant of the row test that looks at the credibility cell only
RowDiffersCredOnly(stored, row) == CellNe(stored.Credibility, row.Credibility)

\* the test of the edit loop: credibility or comment differs from the stored
RowDiffers(stored, row) ==
    CellNe(stored.Credibility, row.Credibility) \/ stored.Comment # row.Comment

\* The edit loop over edited_table.iterrows(): edited is a sequence of
\* [idx, Credibility, Comment] rows; returns the updated frame and the list
\* of changed indices.
RECURSIVE EditLoop(_, _, _)
EditLoop(updated_full, changes, edited) ==
    IF edited = <<>> THEN [updated_full |-> updated_full, changes |-> changes]
    ELSE LET row == Head(edited)
             i == row.idx
         IN  IF RowDiffers(updated_full[i], row)
             THEN EditLoop(
                    [updated_full EXCEPT ![i].Credibility = row.Credibility,
                                         ![i].Comment = row.Comment],
                    Append(changes, i), Tail(edited))
             ELSE EditLoop(updated_full, changes, Tail(edited))

\* index of the first row of df whose ID is id, 0 when there is none
\* (idx_list[0] of the boolean-mask lookup)
FirstIndex(df, id) ==
    IF \E i \in DOMAIN df : df[i].ID = id
    THEN CHOOSE i \in DOMAIN df :
            df[i].ID = id /\ \A j \in DOMAIN df : df[j].ID = id => i <= j
    ELSE 0

\* a variant of the form handler that appends a new row at the end
AddOrUpdateAppend(ft, new_id, new_cred, new_comment) ==
    LET idx == FirstIndex(ft, new_id)
    IN  IF idx # 0
        THEN [ft EXCEPT ![idx].Comment = new_comment,
                        ![idx].Credibility = PyBool(new_cred)]
        ELSE ft \o << [ID |-> new_id, Comment |-> new_comment,
                       Credibility |-> PyBool(new_cred)] >>

\* the form handler on a cleaned, accepted ID: update the first row of that
\* ID in place, or concat([new_row, full_table])
AddOrUpdate(ft, new_id, new_cred, new_comment) ==
    LET idx == FirstIndex(ft, new_id)
    IN  IF idx # 0
        THEN [ft EXCEPT ![idx].Comment = new_comment,
                        ![idx].Credibility = PyBool(new_cred)]
        ELSE << [ID |-> new_id, Comment |-> new_comment,
                 Credibility |-> PyBool(new_cred)] >> \o ft

(* ---------------------- Credibility page: push ------------------------ *)
\* df[cred_col].map({True: "True", False: "False"}): any other cell maps to
\* NaN, which the sheet API cannot take
CredMapped(c) == c.isBool
CredText(c) == IF c.b THEN sTrue ELSE sFalse

\* whether every cell of the frame can be written
Writable(ft) == \A i \in DOMAIN ft : CredMapped(ft[i].Credibility)

\* a variant that writes the data rows without the header row
SheetValuesNoHeader(ft) ==
    [i \in DOMAIN ft |-> SheetRow(ft[i].ID, ft[i].Comment, CredText(ft[i].Credibility))]

\* values = [columns] + rows, the Credibility column as "True" / "False"
SheetValues(ft) ==
    <<HeaderRow>> \o
    [i \in DOMAIN ft |-> SheetRow(ft[i].ID, ft[i].Comment, CredText(ft[i].Credibility))]

(* ------------------------------ state --------------------------------- *)
VARIABLES
    sheet,              \* the remote "Influencers List" worksheet (all values)
    cache,              \* st.cache_data: ver (get_sheet_version), data (load_data),
                        \* all and master (the two frames of the one entry of
                        \* load_all_data), proc (process_uploaded_file),
                        \* upd (update_google_sheet, keyed by the frame)
    current_page,       \* st.session_state.current_page
    sheet_updated,      \* st.session_state.sheet_updated
    full_table,         \* st.session_state.full_table (the working copy)
    editor_version,     \* st.session_state.editor_version
    sheet_version,      \* st.session_state.sheet_version
    data_loaded,        \* st.session_state.data_loaded
    inf_df,             \* st.session_state.inf_df
    master_df,          \* st.session_state.master_df: "rows" or "empty"
    uploaded_file,      \* the file uploader's value in the current List run
    current_file_hash,  \* st.session_state.current_file_hash
    new_df,             \* st.session_state.new_df
    rejected_df,        \* st.session_state.rejected_df
    unknown_df,         \* st.session_state.unknown_df
    pending_df,         \* st.session_state.pending_df
    pc,                 \* where the session's script is
    externals,          \* writes by other sessions so far
    hist,               \* the last operation that touched the working copy
    pushed,             \* the working copy last pushed, per page, until that
                        \* page loads again or the sheet is written otherwise
    raw, once, twice, npc,  \* the normalizer applied once and twice to raw
    retry               \* one call of a function decorated with retry_on_failure

remoteVars == <<sheet, cache, externals>>
credVars == <<full_table, editor_version, sheet_version>>
listVars == <<data_loaded, inf_df, master_df, uploaded_file, current_file_hash, new_df,
              rejected_df, unknown_df, pending_df>>
normVars == <<raw, once, twice, npc>>
vars == <<sheet, cache, current_page, sheet_updated, full_table, editor_version,
          sheet_version, data_loaded, inf_df, master_df, uploaded_file,
          current_file_hash,
          new_df, rejected_df, unknown_df, pending_df, pc, externals, hist,
          pushed, raw, once, twice, npc, retry>>

\* st.cache_data.clear()
EmptyCache ==
    [ver |-> None, data |-> None, all |-> None, master |-> None, proc |-> None,
     upd |-> {}]

\* hist: the name of the last step; its input (the edited table of an edit,
\* the form fields of an add, whether a push repeats the last one, whether
\* a refresh dropped a working copy, how the remote reads of a List run
\* ended, the ticks of an Add Selected and whether it appended); and the
\* edited table of the last edit that changed the working copy, for as long
\* as the working copy is as that edit left it
NoHist == [op |-> "none", arg |-> <<>>, edit |-> None]
\* pushed: cred / list as described above; last is the working copy and the
\* sheet content of the last successful push
NoPushed == [cred |-> None, list |-> None, last |-> None]

(* --------------------------- input domains ---------------------------- *)
RosterIds == {<<"a">>, <<"b">>}
Comments == {<<>>, <<"x">>}
RosterCreds == {sTRUE, sFALSE}

\* header plus 1..n data rows with pairwise different IDs and no comment yet
RosterSheets(n) ==
    LET rows == {SheetRow(id, <<>>, c) : id \in RosterIds, c \in RosterCreds}
        seqs == UNION {[1..k -> rows] : k \in 1..n}
    IN  {<<HeaderRow>> \o s : s \in
            {q \in seqs : \A i, j \in DOMAIN q : i # j => q[i][1] # q[j][1]}}

\* init_session_state of both pages, before any run
SessionInit ==
    /\ current_page = "none"
    /\ sheet_updated = FALSE
    /\ full_table = None
    /\ editor_version = 0
    /\ sheet_version = None
    /\ data_loaded = FALSE
    /\ inf_df = None
    /\ master_df = None
    /\ uploaded_file = None
    /\ current_file_hash = None
    /\ new_df = None
    /\ rejected_df = <<>>
    /\ unknown_df = <<>>
    /\ pending_df = <<>>
    /\ pc = "start"
    /\ hist = NoHist
    /\ pushed = NoPushed

NormIdle == raw = <<>> /\ once = <<>> /\ twice = <<>> /\ npc = "off"

\* no decorated call is under way
RetryIdle ==
    retry = [func |-> "none", outcomes |-> <<>>, attempt |-> 0, calls |-> 0,
             slept |-> 0, errors |-> 0, state |-> "off", value |-> "none"]

\* the Credibility page before its first run, on any roster
InitCred ==
    /\ sheet \in RosterSheets(MaxRows)
    /\ cache = EmptyCache
    /\ externals = 0
    /\ SessionInit
    /\ NormIdle
    /\ RetryIdle

(* ---------------------- Credibility page: script ---------------------- *)
\* pc: "start" no run at its widgets; "cred" / "list" the run of that page
\* is at its widgets; "cred_rerun" / "list_rerun" st.rerun() is pending.
CanRun(page) ==
    \/ pc \in {"start", "cred", "list"}
    \/ pc = (IF page = "cred" THEN "cred_rerun" ELSE "list_rerun")

\* One run of the Credibility script down to the widgets: the page flag,
\* the sheet_updated check, get_sheet_version and load_data through the
\* cache, and the session state management.  A load that raises stops the
\* run (st.stop) after the fingerprint was cached.
CredRun ==
    LET c1 == IF sheet_updated THEN EmptyCache ELSE cache
        ft0 == IF sheet_updated THEN None ELSE full_table
        ver == IF c1.ver.some THEN c1.ver.v ELSE GetSheetVersion(sheet)
        c2 == [c1 EXCEPT !.ver = Some(ver)]
        loadOk == c2.data.some \/ LoadDataOk(sheet)
        data == IF c2.data.some THEN c2.data.v ELSE LoadData(sheet)
        s == SessionSync(ft0, sheet_version, editor_version, ver, data)
    IN  /\ CanRun("cred")
        /\ current_page' = "credibility"
        /\ sheet_updated' = FALSE
        /\ IF loadOk
           THEN /\ s.editor_version <= MaxVersion
                /\ cache' = [c2 EXCEPT !.data = Some(data)]
                /\ full_table' = s.full_table
                /\ sheet_version' = s.sheet_version
                /\ editor_version' = s.editor_version
                /\ pc' = IF s.rerun THEN "cred_rerun" ELSE "cred"
           ELSE /\ cache' = c2
                /\ full_table' = ft0
                /\ UNCHANGED <<sheet_version, editor_version>>
                /\ pc' = "start"
        /\ hist' = [op |-> "CredRun", arg |-> <<>>,
                    edit |-> IF full_table' = full_table THEN hist.edit ELSE None]
        /\ pushed' = [pushed EXCEPT !.cred = None]
        /\ UNCHANGED <<sheet, externals, listVars, normVars, retry>>

\* The Refresh Data button of the sidebar, which a run reaches before the
\* load: after the sheet_updated check, clear the caches, drop the working
\* copy and the stored fingerprint, rerun.
CredRefresh ==
    /\ current_page = "credibility"
    /\ pc \in {"start", "cred"}
    /\ sheet_updated' = FALSE
    /\ cache' = EmptyCache
    /\ full_table' = None
    /\ sheet_version' = None
    /\ pc' = "cred_rerun"
    /\ hist' = [op |-> "CredRefresh", arg |-> [had |-> full_table.some],
                edit |-> None]
    /\ UNCHANGED <<sheet, externals, current_page, editor_version,
                   pushed, listVars, normVars, retry>>

\* the frame as the data editor shows it: every row with its index
Displayed(ft) ==
    [i \in DOMAIN ft |->
        [idx |-> i, Credibility |-> ft[i].Credibility, Comment |-> ft[i].Comment]]

\* The edited tables the data editor can return for a frame: the table as
\* shown, or with one row's checkbox set and comment typed (every cell edit
\* starts a run of its own).
EditedTables(ft, comments) ==
    {Displayed(ft)} \cup
    {[Displayed(ft) EXCEPT ![i].Credibility = c, ![i].Comment = m] :
        i \in DOMAIN ft, c \in {PyBool(TRUE), PyBool(FALSE)}, m \in comments}

\* UPDATE FULL TABLE WITH EDITS: run the edit loop; when some row changed,
\* store the updated frame, bump the editor version and rerun.
ApplyEdit(edited) ==
    /\ pc = "cred"
    /\ full_table.some
    /\ LET r == EditLoop(full_table.v, <<>>, edited)
       IN  /\ IF r.changes # <<>>
              THEN /\ editor_version < MaxVersion
                   /\ full_table' = Some(r.updated_full)
                   /\ editor_version' = editor_version + 1
                   /\ pc' = "cred_rerun"
              ELSE /\ UNCHANGED <<full_table, editor_version>>
                   /\ pc' = "start"
           /\ hist' = [op |-> "ApplyEdit", arg |-> edited,
                       edit |-> IF r.changes # <<>> THEN Some(edited) ELSE hist.edit]
    /\ UNCHANGED <<remoteVars, current_page, sheet_updated, sheet_version, pushed,
                   listVars, normVars, retry>>

\* what the operator may type into the Comment field of the form
FormComments == {<<"x">>}

\* what the operator may type into the Influencer ID field
FormIds == {<<>>, <<"a">>, <<"@", "b">>, <<" ", "@", "a">>, <<"@">>}

\* add_influencer_form submitted: an empty ID is refused; otherwise the ID
\* is cleaned, the row updated or prepended, the editor version bumped and
\* the script rerun.
AddInfluencer(new_id, new_cred, new_comment) ==
    /\ pc = "cred"
    /\ full_table.some
    /\ IF new_id = <<>>
       THEN /\ UNCHANGED <<full_table, editor_version>>
            /\ pc' = "start"
            /\ hist' = [hist EXCEPT !.op = "AddRefused",
                                    !.arg = [id |-> new_id, cred |-> new_cred,
                                             comment |-> new_comment,
                                             existed |-> FALSE]]
       ELSE LET ft == AddOrUpdate(full_table.v, Normalize(new_id),
                                  new_cred, new_comment)
            IN  /\ Len(ft) <= MaxRows
                /\ editor_version < MaxVersion
                /\ full_table' = Some(ft)
                /\ editor_version' = editor_version + 1
                /\ pc' = "cred_rerun"
                /\ hist' = [op |-> "AddInfluencer",
                            arg |-> [id |-> new_id, cred |-> new_cred,
                                     comment |-> new_comment,
                                     existed |->
                                        FirstIndex(full_table.v, Normalize(new_id)) # 0],
                            edit |-> None]
    /\ UNCHANGED <<remoteVars, current_page, sheet_updated, sheet_version, pushed,
                   listVars, normVars, retry>>

\* how a push ends: written, or the clear or the write raised
PushOutcomes == {"ok", "clear_fails", "write_fails"}

\* a variant of the write that appends below the old content
RemoteAfterPushAppend(values, ft) == values \o SheetValues(ft)

\* worksheet.clear() then worksheet.update(values): the old content is gone
RemoteAfterPush(values, ft) == SheetValues(ft)

\* The Update Google Sheet button.  update_google_sheet is cached on the
\* frame: a hit returns True without a write.  Otherwise the sheet is
\* cleared and written; a frame with a cell that maps to NaN cannot be
\* written, so the write raises after the clear.  On success the flag is
\* set, every cache is cleared and the script reruns; on an exception only
\* the error is shown.
PushSheet(outcome) ==
    /\ pc = "cred"
    /\ full_table.some
    /\ LET ft == full_table.v
           hit == ft \in cache.upd
           ok == hit \/ (outcome = "ok" /\ Writable(ft))
       IN  /\ (outcome = "ok" /\ ~hit) => Writable(ft)
           /\ sheet' = IF hit \/ outcome = "clear_fails" THEN sheet
                       ELSE IF outcome = "ok" THEN RemoteAfterPush(sheet, ft)
                       ELSE <<>>
           /\ IF ok
              THEN /\ sheet_updated' = TRUE
                   /\ cache' = EmptyCache
                   /\ pc' = "cred_rerun"
                   /\ hist' = [hist EXCEPT
                                 !.op = "PushOk",
                                 !.arg = [repeat |-> /\ pushed.last.some
                                                     /\ pushed.last.v.wc = ft]]
                   /\ pushed' = [cred |-> Some(ft), list |-> Some(ft),
                                 last |-> Some([wc |-> ft, sheet |-> sheet'])]
              ELSE /\ UNCHANGED <<sheet_updated, cache>>
                   /\ pc' = "start"
                   /\ hist' = [hist EXCEPT !.op = "PushFailed", !.arg = <<>>]
                   /\ pushed' = [pushed EXCEPT !.cred = None, !.list = None]
    /\ UNCHANGED <<externals, current_page, credVars, listVars, normVars, retry>>

(* -------------------------- List page: script ------------------------- *)
\* the comment and the cells the List page writes for an unknown candidate
sNoComment ==
    <<"N", "o", " ", "c", "o", "m", "m", "e", "n", "t", " ", "y", "e", "t">>

\* One run of the List script with f in the file uploader (None: no file):
\* the page flag and the sheet_updated check (either clears every cache and
\* forces a load), the roster load through the cache, the file-hash gate
\* with process_uploaded_file through its cache (whose only argument is not
\* part of the key, so any cached frame is a hit), and the partitioning.
\* A load or a parse that raises ends the run where it stands.
\* fetch tells how the remote reads of a load that misses the cache end.  A
\* worksheet that cannot be opened or read gives load_worksheet_df an empty
\* frame: for the roster inf_df.columns[0] then raises and the load stops
\* the run; for the master sheet the missing columns are filled in and the
\* load returns, so its result is cached.
ListRun(f, fetch) ==
    LET fresh == current_page # "list" \/ sheet_updated
        c1 == IF fresh THEN EmptyCache ELSE cache
        dl1 == IF fresh THEN FALSE ELSE data_loaded
        needLoad == ~dl1 \/ ~inf_df.some
        miss == needLoad /\ ~c1.all.some
        loadOk == c1.all.some \/ (fetch # "inf_fails" /\ ListLoadOk(sheet))
        loaded == IF c1.all.some THEN c1.all.v ELSE InfDf(sheet)
        master == IF c1.all.some THEN c1.master.v
                  ELSE IF fetch = "master_fails" THEN "empty" ELSE "rows"
        c2 == IF needLoad /\ loadOk
              THEN [c1 EXCEPT !.all = Some(loaded), !.master = Some(master)]
              ELSE c1
        inf1 == IF needLoad THEN Some(loaded) ELSE inf_df
        changed == f.some /\ current_file_hash # Some(FileHash(f.v))
        parseOk == c2.proc.some \/ f.v.ok
        parsed == IF c2.proc.some THEN c2.proc.v ELSE ProcessUploadedFile(f.v)
        c3 == IF changed /\ parseOk THEN [c2 EXCEPT !.proc = Some(parsed)] ELSE c2
        new1 == IF changed THEN Some(parsed) ELSE new_df
        merged == Merge(new1.v, inf1.v)
        rej == RejectedDf(merged)
        unk == UnknownDf(merged)
    IN  /\ CanRun("list")
        /\ fetch # "ok" => miss
        /\ current_page' = "list"
        /\ sheet_updated' = FALSE
        /\ uploaded_file' = f
        /\ IF needLoad /\ ~loadOk
           THEN /\ cache' = c1
                /\ data_loaded' = dl1
                /\ pc' = "start"
                /\ UNCHANGED <<inf_df, master_df, current_file_hash, new_df,
                               rejected_df, unknown_df, pending_df>>
           ELSE /\ inf_df' = inf1
                /\ master_df' = (IF needLoad THEN Some(master) ELSE master_df)
                /\ data_loaded' = TRUE
                /\ IF ~f.some
                   THEN /\ cache' = c2
                        /\ pc' = "start"
                        /\ UNCHANGED <<current_file_hash, new_df, rejected_df,
                                       unknown_df, pending_df>>
                   ELSE /\ current_file_hash' = Some(FileHash(f.v))
                        /\ IF (changed /\ ~parseOk) \/ ~new1.some
                           THEN /\ cache' = c2
                                /\ pc' = "start"
                                /\ UNCHANGED <<new_df, rejected_df, unknown_df,
                                               pending_df>>
                           ELSE /\ cache' = c3
                                /\ new_df' = new1
                                /\ rejected_df' = rej
                                /\ unknown_df' = unk
                                /\ pending_df' = PendingDf(new1.v, rej, unk)
                                /\ pc' = "list"
        /\ hist' = [hist EXCEPT !.op = "ListRun", !.arg = fetch]
        /\ pushed' = [pushed EXCEPT !.list = None]
        /\ UNCHANGED <<sheet, externals, credVars, normVars, retry>>

\* The Refresh Data button of the List sidebar.
ListRefresh ==
    /\ current_page = "list"
    /\ pc \in {"start", "list"}
    /\ cache' = EmptyCache
    /\ data_loaded' = FALSE
    /\ sheet_updated' = FALSE
    /\ pc' = "list_rerun"
    /\ hist' = [hist EXCEPT !.op = "ListRefresh", !.arg = <<>>]
    /\ UNCHANGED <<sheet, externals, current_page, credVars, inf_df, master_df,
                   uploaded_file, current_file_hash, new_df, rejected_df, unknown_df, pending_df,
                   pushed, normVars, retry>>

\* append_rows(..., value_input_option="USER_ENTERED"): the sheet parses the
\* text "True" / "False" into a boolean cell, read back as "TRUE" / "FALSE"
UserEntered(status) == IF status = "Approved" THEN sTRUE ELSE sFALSE

\* the rows to append for the chosen rows of the unknown editor, in order
RECURSIVE ToAdd(_, _, _)
ToAdd(unk, i, choice) ==
    IF i > Len(unk) THEN <<>>
    ELSE (IF choice[i] = "skip" THEN <<>>
          ELSE << SheetRow(unk[i].ID, sNoComment, UserEntered(choice[i])) >>)
         \o ToAdd(unk, i + 1, choice)

\* The Add Selected to Google Sheet button: the rows ticked in the unknown
\* editor are appended with their status; on success the flag is set, the
\* caches are cleared and the script reruns.
AddSelected(choice, ok) ==
    /\ pc = "list"
    /\ uploaded_file.some
    /\ LET to_add == ToAdd(unknown_df, 1, choice)
       IN  IF to_add = <<>>
           THEN /\ pc' = "start"
                /\ UNCHANGED <<sheet, cache, sheet_updated, pushed>>
           ELSE IF ok
           THEN /\ Len(sheet) + Len(to_add) <= MaxSheetLen
                /\ sheet' = sheet \o to_add
                /\ sheet_updated' = TRUE
                /\ cache' = EmptyCache
                /\ pc' = "list_rerun"
                /\ pushed' = [pushed EXCEPT !.cred = None, !.list = None]
           ELSE /\ pc' = "start"
                /\ UNCHANGED <<sheet, cache, sheet_updated, pushed>>
    /\ hist' = [hist EXCEPT
                  !.op = "AddSelected",
                  !.arg = [choice |-> choice,
                           done |-> ok /\ ToAdd(unknown_df, 1, choice) # <<>>]]
    /\ UNCHANGED <<externals, current_page, credVars, listVars, normVars, retry>>

(* ------------------------------ environment --------------------------- *)
\* the time-to-live of a cache entry runs out (ttl=60 for get_sheet_version
\* and load_all_data, ttl=120 for load_data)
ExpireVer ==
    /\ cache.ver.some
    /\ cache' = [cache EXCEPT !.ver = None]
    /\ hist' = [hist EXCEPT !.op = "env", !.arg = <<>>]
    /\ UNCHANGED <<sheet, externals, current_page, sheet_updated, credVars,
                   listVars, pc, pushed, normVars, retry>>

ExpireData ==
    /\ cache.data.some
    /\ cache' = [cache EXCEPT !.data = None]
    /\ hist' = [hist EXCEPT !.op = "env", !.arg = <<>>]
    /\ UNCHANGED <<sheet, externals, current_page, sheet_updated, credVars,
                   listVars, pc, pushed, normVars, retry>>

ExpireAll ==
    /\ cache.all.some
    /\ cache' = [cache EXCEPT !.all = None, !.master = None]
    /\ hist' = [hist EXCEPT !.op = "env", !.arg = <<>>]
    /\ UNCHANGED <<sheet, externals, current_page, sheet_updated, credVars,
                   listVars, pc, pushed, normVars, retry>>

\* what another session can leave in the sheet: the credibility cell of one
\* data row rewritten, or a row of a new ID appended
ExternalSheets(values) ==
    {[values EXCEPT ![i][3] = c] : i \in 2..Len(values), c \in RosterCreds}
    \cup {Append(values, SheetRow(id, <<>>, c)) :
            id \in {x \in RosterIds : \A i \in 1..Len(values) : values[i][1] # x},
            c \in RosterCreds}

\* another session writes the sheet (the store is shared, without locking)
ExternalWrite ==
    /\ externals < MaxExternal
    /\ externals' = externals + 1
    /\ \E s \in ExternalSheets(sheet) :
          /\ s # sheet
          /\ Len(s) <= MaxRows + 1
          /\ sheet' = s
    /\ hist' = [hist EXCEPT !.op = "env", !.arg = <<>>]
    /\ pushed' = [pushed EXCEPT !.cred = None, !.list = None]
    /\ UNCHANGED <<cache, current_page, sheet_updated, credVars, listVars, pc,
                   normVars, retry>>

(* ------------------------------ specification ------------------------- *)
\* the files the operator uploads
UploadFiles ==
    { File(<< <<"b">>, <<"b">> >>, TRUE),
      File(<< <<"@", "b">>, <<"a">> >>, TRUE),
      File(<< <<"b">> >>, FALSE) }

FileInputs == {None} \cup {Some(x) : x \in UploadFiles}

\* the choices of the unknown editor: per row, not ticked or ticked with a status
Choices == [DOMAIN unknown_df -> {"skip", "Approved", "Rejected"}]

\* the Credibility page and the store it shares with other sessions
CredNext ==
    \/ CredRun
    \/ CredRefresh
    \/ \E edited \in EditedTables(full_table.v, Comments) : ApplyEdit(edited)
    \/ \E new_id \in FormIds, new_cred \in BOOLEAN, new_comment \in FormComments :
          AddInfluencer(new_id, new_cred, new_comment)
    \/ \E outcome \in PushOutcomes : PushSheet(outcome)
    \/ ExpireVer
    \/ ExpireData
    \/ ExternalWrite

SpecCred == InitCred /\ [][CredNext]_vars

\* the file of the two-page session
SessionFile == File(<< <<"@", "b">>, <<"a">> >>, TRUE)

\* one operator working on both pages, alone on the store and within the
\* time-to-live of every cache entry
Next ==
    \/ CredRun
    \/ CredRefresh
    \/ \E edited \in EditedTables(full_table.v, Comments) : ApplyEdit(edited)
    \/ \E new_id \in FormIds, new_cred \in BOOLEAN, new_comment \in FormComments :
          AddInfluencer(new_id, new_cred, new_comment)
    \/ \E outcome \in PushOutcomes : PushSheet(outcome)
    \/ \E f \in {None, Some(SessionFile)} : ListRun(f, "ok")
    \/ ListRefresh
    \/ \E choice \in Choices, ok \in BOOLEAN : AddSelected(choice, ok)

Init ==
    /\ sheet \in RosterSheets(SessionRows)
    /\ cache = EmptyCache
    /\ externals = 0
    /\ SessionInit
    /\ NormIdle
    /\ RetryIdle

Spec == Init /\ [][Next]_vars

(* ---------------------- a roster edited by hand ----------------------- *)
\* Credibility cells of a sheet people also edit by hand: the two spellings
\* the sheet shows for a checkbox, or left blank
HandCreds == RosterCreds \cup {<<>>}

\* header plus 1..n data rows with pairwise different IDs
HandSheets(n) ==
    LET rows == {SheetRow(id, <<>>, c) : id \in RosterIds, c \in HandCreds}
        seqs == UNION {[1..k -> rows] : k \in 1..n}
    IN  {<<HeaderRow>> \o s : s \in
            {q \in seqs : \A i, j \in DOMAIN q : i # j => q[i][1] # q[j][1]}}

InitHand ==
    /\ sheet \in HandSheets(MaxRows)
    /\ cache = EmptyCache
    /\ externals = 0
    /\ SessionInit
    /\ NormIdle
    /\ RetryIdle

\* one operator on the Credibility page, within the time-to-live of the caches
HandNext ==
    \/ CredRun
    \/ CredRefresh
    \/ \E edited \in EditedTables(full_table.v, Comments) : ApplyEdit(edited)
    \/ \E new_id \in FormIds, new_cred \in BOOLEAN, new_comment \in FormComments :
          AddInfluencer(new_id, new_cred, new_comment)
    \/ \E outcome \in PushOutcomes : PushSheet(outcome)

SpecHand == InitHand /\ [][HandNext]_vars

(* ---------------------- the List page and its store ------------------- *)
\* how the remote reads of a roster load can end
FetchOutcomes == {"ok", "inf_fails", "master_fails"}

\* the List page over any upload, with failing reads, an expiring roster
\* cache and another session writing the sheet
ListNext ==
    \/ \E f \in FileInputs, fetch \in FetchOutcomes : ListRun(f, fetch)
    \/ ListRefresh
    \/ \E choice \in Choices, ok \in BOOLEAN : AddSelected(choice, ok)
    \/ ExpireAll
    \/ ExternalWrite

SpecList == Init /\ [][ListNext]_vars

(* ---------------------- the normalizer alone -------------------------- *)
\* the rest of the state while only the normalizer or the List page runs
Quiet ==
    /\ cache = EmptyCache
    /\ externals = 0
    /\ SessionInit

InitNorm ==
    /\ raw \in StrUpTo(IdChars, MaxLen)
    /\ once = <<>>
    /\ twice = <<>>
    /\ npc = "raw"
    /\ sheet = <<HeaderRow>>
    /\ Quiet
    /\ RetryIdle

\* the cleaning applied to the raw string
NormalizeOnce ==
    /\ npc = "raw"
    /\ once' = Normalize(raw)
    /\ npc' = "once"
    /\ UNCHANGED <<raw, twice, remoteVars, current_page, sheet_updated, credVars,
                   listVars, pc, hist, pushed, retry>>

\* the cleaning applied to its own result
NormalizeTwice ==
    /\ npc = "once"
    /\ twice' = Normalize(once)
    /\ npc' = "twice"
    /\ UNCHANGED <<raw, once, remoteVars, current_page, sheet_updated, credVars,
                   listVars, pc, hist, pushed, retry>>

NormNext == NormalizeOnce \/ NormalizeTwice

SpecNorm == InitNorm /\ [][NormNext]_vars

(* ---------------------- retry_on_failure ------------------------------ *)
\* max_retries of the decorated functions, and the default delay
ClientRetries == 3
WorksheetRetries == 2
Delay == 1

RetryFuncs == {"get_gsheets_client", "get_worksheet_by_key", "get_worksheet_by_url"}
MaxRetriesOf(func) ==
    IF func = "get_gsheets_client" THEN ClientRetries ELSE WorksheetRetries

\* how the remote call inside the body ends: it answers, the worksheet is
\* not there, or it raises any other exception
RemoteOutcomes == {"ok", "not_found", "error"}

\* The body of each decorated function: the remote call sits in a try
\* whose except clauses catch every Exception, show it with st.error and
\* return None.  The body itself never raises.
Body(func, outcome) ==
    IF outcome = "ok"
    THEN [raised |-> FALSE, value |-> "handle", shown |-> 0]
    ELSE [raised |-> FALSE, value |-> "None", shown |-> 1]

\* a call of a decorated function, the remote failing as outcomes tells
InitRetry ==
    /\ retry \in {[func |-> f, outcomes |-> o, attempt |-> 0, calls |-> 0,
                    slept |-> 0, errors |-> 0, state |-> "running",
                    value |-> "none"] :
                        f \in RetryFuncs, o \in [1..ClientRetries -> RemoteOutcomes]}
    /\ sheet = <<HeaderRow>>
    /\ Quiet
    /\ NormIdle

\* one turn of the loop of wrapper: call the body; return what it returns;
\* on an exception raise it when this was the last attempt, else sleep
\* delay * (attempt + 1) and go round
RetryAttempt ==
    /\ retry.state = "running"
    /\ LET r == Body(retry.func, retry.outcomes[retry.attempt + 1])
           called == [retry EXCEPT !.calls = @ + 1, !.errors = @ + r.shown]
       IN  retry' =
             IF ~r.raised
             THEN [called EXCEPT !.state = "returned", !.value = r.value]
             ELSE IF retry.attempt = MaxRetriesOf(retry.func) - 1
             THEN [called EXCEPT !.state = "raised"]
             ELSE [called EXCEPT !.attempt = @ + 1,
                                 !.slept = @ + Delay * (retry.attempt + 1)]
    /\ UNCHANGED <<remoteVars, current_page, sheet_updated, credVars, listVars,
                   pc, hist, pushed, normVars>>

SpecRetry == InitRetry /\ [][RetryAttempt]_vars

(* ---------------------- the reconciliation alone ---------------------- *)
\* raw ID cells of the roster: clean, with a leading "@", with whitespace
ReconRosterIds == {<<"a">>, <<"@", "a">>, <<" ", "b">>}
\* raw Credibility cells of the roster
ReconCreds == {sTRUE, sFALSE, sfalse, <<>>}
\* raw ID cells of an uploaded file
ReconFileIds == {<<"a">>, <<"@", "a">>, <<"b", " ">>, <<"@", "c">>}

\* header plus 1..n data rows, IDs free to repeat
ReconSheets(n) ==
    LET rows == {SheetRow(id, <<>>, c) : id \in ReconRosterIds, c \in ReconCreds}
    IN  {<<HeaderRow>> \o s : s \in UNION {[1..k -> rows] : k \in 1..n}}

\* parsable files of 1..n rows
ReconFiles(n) == {File(ids, TRUE) : ids \in UNION {[1..k -> ReconFileIds] : k \in 1..n}}

\* a session on the List page with a file in the uploader, before its run
InitRecon ==
    /\ sheet \in ReconSheets(MaxRows)
    /\ cache = EmptyCache
    /\ externals = 0
    /\ current_page = "none"
    /\ sheet_updated = FALSE
    /\ full_table = None
    /\ editor_version = 0
    /\ sheet_version = None
    /\ data_loaded = FALSE
    /\ inf_df = None
    /\ master_df = None
    /\ uploaded_file \in {Some(f) : f \in ReconFiles(MaxCands)}
    /\ current_file_hash = None
    /\ new_df = None
    /\ rejected_df = <<>>
    /\ unknown_df = <<>>
    /\ pending_df = <<>>
    /\ pc = "start"
    /\ hist = NoHist
    /\ pushed = NoPushed
    /\ NormIdle
    /\ RetryIdle

\* the run of the List script on the file in the uploader
ReconNext == ListRun(uploaded_file, "ok")

SpecRecon == InitRecon /\ [][ReconNext]_vars

(* ============================ the claims ============================== *)
\* the identities of a frame of bare IDs
Ids(df) == {df[i] : i \in DOMAIN df}

\* C1: after a run of the List page on an uploaded file and a loaded
\* roster, the Pending, Rejected and Unknown partitions are pairwise
\* disjoint as sets of identities and their union is exactly the set of the
\* identities of the uploaded candidates.
C1_PartitionsDisjointExhaustive ==
    pc = "list" =>
        LET rej == IdSet(rejected_df)
            unk == IdSet(unknown_df)
            pen == Ids(pending_df)
        IN  /\ rej \cap unk = {}
            /\ rej \cap pen = {}
            /\ unk \cap pen = {}
            /\ rej \cup unk \cup pen = Ids(new_df.v)

\* C1 witness: a run that left all three partitions non-empty
C1_Witness ==
    /\ pc = "list"
    /\ rejected_df # <<>>
    /\ unknown_df # <<>>
    /\ pending_df # <<>>

\* C7 (as claimed): the cleaned identity of every raw string has no leading
\* "@" and no leading or trailing whitespace.
C7_NoLeadingAtNoOuterSpace ==
    npc \in {"once", "twice"} =>
        \/ once = <<>>
        \/ /\ Head(once) # "@"
           /\ ~IsSpace(Head(once))
           /\ ~IsSpace(once[Len(once)])

\* C8 (as claimed): cleaning is idempotent, normalize(normalize(x)) =
\* normalize(x) for every raw string x.
C8_NormalizeIdempotent == npc = "twice" => twice = once

\* C9 (as claimed): whenever the raw identity of an uploaded candidate and
\* the raw identity of a roster row have the same normalized form, the
\* candidate is not placed in Unknown.
C9_SameNormalFormNotUnknown ==
    pc = "list" =>
        \A k \in DOMAIN uploaded_file.v.ids, i \in 2..Len(sheet) :
            Normalize(uploaded_file.v.ids[k]) = Normalize(sheet[i][1])
                => Normalize(uploaded_file.v.ids[k]) \notin IdSet(unknown_df)

C2_ChangedFingerprintReloads ==
    [][ ( /\ hist'.op = "CredRun"
          /\ full_table.some
          /\ sheet_version.some
          /\ cache'.data.some
          /\ sheet_version.v # cache'.ver.v )
        => ( /\ full_table' = cache'.data
             /\ sheet_version' = cache'.ver
             /\ editor_version' = editor_version + 1 ) ]_vars

\* C2 witness: a run that reloaded over a working copy with local edits
C2_Witness ==
    /\ hist.op = "CredRun"
    /\ pc = "cred_rerun"
    /\ editor_version = 2
    /\ full_table = cache.data
    /\ sheet_version = cache.ver

\* the rows a frame holds, as the List page represents them after its load:
\* the ID without outer whitespace, the credibility as lower-case text, the
\* comment as it is, an empty comment possibly as a missing value
ListViewOf(ft, df) ==
    /\ Len(df) = Len(ft)
    /\ \A i \in DOMAIN ft :
          /\ df[i].ID = Strip(ft[i].ID)
          /\ \/ df[i].Comment = ft[i].Comment
             \/ ft[i].Comment = <<>> /\ df[i].Comment = NaN
          /\ ft[i].Credibility.isBool
          /\ df[i].Credibility = (IF ft[i].Credibility.b THEN strue ELSE sfalse)

\* C3: the first load of either page after a successful push (no other
\* write to the sheet in between) cannot be served from the cache, and the
\* rows it returns are the rows of the working copy that was pushed.
C3_LoadAfterPushIsFresh ==
    [][ /\ (hist'.op = "CredRun" /\ pushed.cred.some)
            => /\ sheet_updated \/ ~cache.data.some
               /\ cache'.data = Some(pushed.cred.v)
               /\ full_table' = Some(pushed.cred.v)
        /\ (hist'.op = "ListRun" /\ pushed.list.some)
            => /\ current_page # "list" \/ sheet_updated \/ ~cache.all.some
               /\ cache'.all.some
               /\ inf_df' = cache'.all
               /\ ListViewOf(pushed.list.v, inf_df'.v) ]_vars

\* C3 witness: the List page has loaded the edited roster that was pushed
C3_Witness ==
    /\ hist.op = "ListRun"
    /\ pushed.last.some
    /\ editor_version > 0
    /\ \E i \in DOMAIN pushed.last.v.wc : pushed.last.v.wc[i].Comment = <<"x">>
    /\ inf_df.some
    /\ ListViewOf(pushed.last.v.wc, inf_df.v)

\* C4: the edit loop changes the working copy and bumps the editor version
\* (by one) exactly when the credibility or the comment of some edited row
\* differs from the stored value, and then the stored rows take the edited
\* values; the same edited table applied again changes nothing and does not
\* bump the version.
C4_EditIdempotent ==
    [][ hist'.op = "ApplyEdit" =>
          LET e == hist'.arg
              ft == full_table.v
              differs == \E i \in DOMAIN e :
                            \/ ft[e[i].idx].Credibility # e[i].Credibility
                            \/ ft[e[i].idx].Comment # e[i].Comment
          IN  /\ differs =>
                    /\ editor_version' = editor_version + 1
                    /\ \A i \in DOMAIN e :
                          /\ full_table'.v[e[i].idx].Credibility = e[i].Credibility
                          /\ full_table'.v[e[i].idx].Comment = e[i].Comment
              /\ ~differs => UNCHANGED <<full_table, editor_version>>
              /\ hist.edit = Some(e) => UNCHANGED <<full_table, editor_version>>
      ]_vars

\* C4 witness: an edit that changed the working copy was applied again and
\* found nothing to change
C4_Witness ==
    /\ hist.op = "ApplyEdit"
    /\ pc = "start"
    /\ hist.edit = Some(hist.arg)
    /\ editor_version = 1

C6_PushIdempotent ==
    [][ ( /\ hist'.op = "PushOk"
          /\ pushed.last.some
          /\ pushed.last.v.wc = full_table.v )
        => sheet' = pushed.last.v.sheet ]_vars

\* C6 witness: two successful pushes of the same working copy, the second
\* over a sheet another session had written in between
C6_Witness ==
    /\ hist.op = "PushOk"
    /\ hist.arg.repeat
    /\ externals = 1

SameCountAndLastRow(values) ==
    {values} \cup
    {[values EXCEPT ![i][3] = c] : i \in 2..(Len(values) - 1), c \in RosterCreds}

\* C12: the fingerprint is a function of the row count and of the last row
\* alone: a write to the sheet that keeps both keeps the fingerprint, and a
\* run that computes the fingerprint anew while the stored one comes from a
\* row list of the same count and last row leaves the working copy, the
\* stored fingerprint and the editor version as they are.
C12_FingerprintCountAndLastRow ==
    [][ /\ ( /\ hist'.op = "env"
             /\ sheet # <<>>
             /\ Len(sheet') = Len(sheet)
             /\ sheet'[Len(sheet')] = sheet[Len(sheet)] )
           => GetSheetVersion(sheet') = GetSheetVersion(sheet)
        /\ ( /\ hist'.op = "CredRun"
             /\ ~sheet_updated
             /\ full_table.some
             /\ sheet_version.some
             /\ ~cache.ver.some
             /\ \E s \in SameCountAndLastRow(sheet) :
                    sheet_version.v = GetSheetVersion(s) )
           => UNCHANGED <<full_table, sheet_version, editor_version>> ]_vars

\* C12 witness: another session changed a row before the last; a later run
\* computed the fingerprint and loaded the roster anew, and kept the working
\* copy, which is not the roster any more
C12_Witness ==
    /\ hist.op = "CredRun"
    /\ pc = "cred"
    /\ externals = 1
    /\ editor_version = 0
    /\ full_table.some
    /\ sheet_version = Some(GetSheetVersion(sheet))
    /\ cache.data = Some(LoadData(sheet))
    /\ full_table.v # LoadData(sheet)

\* C13: a List run whose roster load misses the cache and fails to read the
\* roster sheet or the master sheet commits no entry to the cache of the
\* load (a failing read only happens on a miss, so there is no older entry
\* to keep).
C13_FailedFetchCommitsNothing ==
    [][ (hist'.op = "ListRun" /\ hist'.arg \in {"inf_fails", "master_fails"})
        => (~cache'.all.some /\ ~cache'.master.some) ]_vars

\* C14: no two data rows of the roster sheet have the same ID cell.
C14_RosterIdsUnique ==
    \A i, j \in 2..Len(sheet) : i # j => sheet[i][1] # sheet[j][1]

\* C15: a run that computes the fingerprint from the sheet (no cached
\* fingerprint), finds it different from the stored one and reloads, leaves
\* in the working copy the rows of that same sheet.
C15_ReloadMatchesFingerprint ==
    [][ ( /\ hist'.op = "CredRun"
          /\ sheet_version.some
          /\ sheet_updated \/ ~cache.ver.some
          /\ cache'.data.some
          /\ sheet_version.v # cache'.ver.v )
        => ( /\ sheet_version' = Some(GetSheetVersion(sheet))
             /\ full_table' = Some(LoadData(sheet)) ) ]_vars

\* C16: the editor version never decreases; an edit that changes a row and
\* an accepted add increment it; and so does every run that loads the
\* working copy again after Refresh dropped it or after the sheet_updated
\* flag dropped it.
C16_VersionBumpsOnMutationAndReload ==
    [][ /\ editor_version' >= editor_version
        /\ hist'.op = "AddInfluencer" => editor_version' = editor_version + 1
        /\ (hist'.op = "ApplyEdit" /\ full_table' # full_table)
              => editor_version' = editor_version + 1
        /\ ( /\ hist'.op = "CredRun"
             /\ full_table'.some
             /\ \/ sheet_updated /\ full_table.some
                \/ hist.op = "CredRefresh" /\ hist.arg.had )
           => editor_version' = editor_version + 1 ]_vars

\* C17: the run that follows a failed push finds no cached fingerprint and
\* no cached roster to serve (the caches were cleared, or the run clears
\* them), so both are read from the sheet again.
C17_FailedPushForcesRefetch ==
    [][ (hist.op = "PushFailed" /\ hist'.op = "CredRun")
        => (sheet_updated \/ (~cache.ver.some /\ ~cache.data.some)) ]_vars

\* C18: when a decorated call has ended: if the remote never answers within
\* max_retries attempts, the body was called max_retries times, the waits
\* were delay * 1, delay * 2, ... between them and the failure reached the
\* caller; if the remote first answers at attempt k, the body was called k
\* times and the call returned the handle.
C18_BoundedRetryWithBackoff ==
    retry.state \in {"returned", "raised"} =>
        LET max == MaxRetriesOf(retry.func)
            oks == {k \in 1..max : retry.outcomes[k] = "ok"}
        IN  IF oks = {}
            THEN /\ retry.calls = max
                 /\ retry.slept = Delay * (((max - 1) * max) \div 2)
                 /\ retry.state = "raised" \/ retry.errors > 0
            ELSE LET k == CHOOSE k \in oks : \A j \in oks : k <= j
                 IN  /\ retry.calls = k
                     /\ retry.slept = Delay * (((k - 1) * k) \div 2)
                     /\ retry.state = "returned"
                     /\ retry.value = "handle"

\* C19: after the partitioning, the joined frame has one row per uploaded
\* row, and the rows of Rejected, Unknown and Pending add up to the number
\* of uploaded rows.
C19_OneRowPerCandidate ==
    pc = "list" =>
        /\ Len(Merge(new_df.v, inf_df.v)) = Len(new_df.v)
        /\ Len(rejected_df) + Len(unknown_df) + Len(pending_df) = Len(new_df.v)

\* C20: whenever a List run has partitioned and the stored file hash is the
\* hash of the file in the uploader, the candidates it partitioned are the
\* ones parsed from that file.
C20_HashNamesTheParsedFile ==
    ( /\ pc = "list"
      /\ uploaded_file.some
      /\ current_file_hash = Some(FileHash(uploaded_file.v)) )
    => new_df = Some(ProcessUploadedFile(uploaded_file.v))

\* C21: Add Selected appends one row per ticked row of the Unknown editor
\* and no other row; and when the run that follows a successful append
\* partitions the same upload, it has loaded the roster from the sheet
\* again, and every candidate committed as Approved is in Pending, every
\* candidate committed as Rejected is in Rejected, and none of them is in
\* Unknown.
C21_CommittedLeavesUnknown ==
    [][ /\ hist'.op = "AddSelected" =>
              LET ticked == {i \in DOMAIN unknown_df : hist'.arg.choice[i] # "skip"}
              IN  IF hist'.arg.done
                  THEN /\ Len(sheet') = Len(sheet) + Cardinality(ticked)
                       /\ \A k \in (Len(sheet) + 1)..Len(sheet') :
                             \E i \in ticked : sheet'[k][1] = unknown_df[i].ID
                  ELSE sheet' = sheet
        /\ ( /\ hist.op = "AddSelected"
             /\ hist.arg.done
             /\ hist'.op = "ListRun"
             /\ pc' = "list"
             /\ uploaded_file' = uploaded_file )
           => /\ inf_df' = Some(InfDf(sheet))
              /\ \A i \in DOMAIN unknown_df :
                    LET id == unknown_df[i].ID
                    IN  /\ hist.arg.choice[i] # "skip" => id \notin IdSet(unknown_df')
                        /\ hist.arg.choice[i] = "Approved" => id \in Ids(pending_df')
                        /\ hist.arg.choice[i] = "Rejected" => id \in IdSet(rejected_df')
      ]_vars

\* C22: every row of the working copy has a boolean credibility, and after
\* a successful push every data row of the sheet has "True" or "False" in
\* its credibility cell.
C22_CredibilityAlwaysBoolean ==
    /\ full_table.some =>
          \A i \in DOMAIN full_table.v : full_table.v[i].Credibility.isBool
    /\ hist.op = "PushOk" =>
          \A i \in 2..Len(sheet) : sheet[i][3] \in {sTrue, sFalse}

\* C23: a submission of the form never adds a row with an empty ID to the
\* working copy, and a submission whose ID is empty, or empty once cleaned,
\* leaves the working copy and the editor version as they are.
C23_EmptyIdentityRefused ==
    [][ hist'.op \in {"AddInfluencer", "AddRefused"} =>
          /\ \A i \in DOMAIN full_table'.v :
                full_table'.v[i].ID = <<>>
                    => \E j \in DOMAIN full_table.v : full_table.v[j].ID = <<>>
          /\ Normalize(hist'.arg.id) = <<>>
                => UNCHANGED <<full_table, editor_version>> ]_vars

====
